---- MODULE Spec2Model ----
(***************************************************************************)
(* WovAPICaller (bot_util/misc/api_callers.py): a rate-limited task queue.  *)
(* add_to_queue creates a Future and puts (func, args, future) on an        *)
(* asyncio.Queue; the single worker task process_queue gets one entry at a  *)
(* time, awaits func on args, stores the outcome in the Future, marks the    *)
(* entry done and sleeps one second before the next get.                    *)
(*                                                                          *)
(* asyncio schedules cooperatively on one thread, so the code between two   *)
(* suspension points is one atomic step.  The worker's suspension points    *)
(* are queue.get() on an empty queue, the awaited operation, and the sleep. *)
(***************************************************************************)
EXTENDS Integers, Sequences, FiniteSets

VARIABLES
    queue,       \* self.queue: the entries (func, args, future) not yet taken
    putters,     \* entries whose put() is suspended on a full queue
    unfinished,  \* self.queue's count of unfinished tasks (put / task_done)
    futures,     \* the Future objects made by add_to_queue, in creation order
    pc,          \* where the worker task self.worker stands in process_queue
    cur,         \* the worker's locals func, args, future
    now,         \* the event loop's clock, in ticks
    wakeAt,      \* the deadline of the worker's asyncio.sleep
    trace        \* per Future: its call, how often its operation started and
                 \* ended, and when it ended (history, read by no action)

vars == <<queue, putters, unfinished, futures, pc, cur, now, wakeAt, trace>>

----------------------------------------------------------------------------
(* Bounds of the model *)

MaxTasks == 3        \* add_to_queue calls in one run
MaxTime == 2         \* the clock runs freely up to here, then only for a sleeper
TicksPerUnit == 2    \* clock ticks in one second

(* Program constants *)

Cooldown == 1        \* asyncio.sleep(1)
maxsize == 0         \* asyncio.Queue(): no maxsize given, so 0 = unbounded

----------------------------------------------------------------------------
(* The operations a submitter can hand in, by what awaiting them does *)

Funcs == {"returns", "raises", "aborts", "blocks"}
Args == {1, 2}

\* The calls submitters make: every function with every argument it tells
\* apart (an operation that stores nothing in its Future is called with one).
Calls == {c \in Funcs \X Args : c[1] \in {"returns", "raises"} \/ c[2] = 1}

\* await func on args: a value, an Exception, a BaseException that is no
\* Exception (asyncio.CancelledError, KeyboardInterrupt, SystemExit), or no
\* completion at all.  The payload depends on the function and its arguments.
Run(func, args) ==
    CASE func = "returns" -> [kind |-> "value", val |-> 10 + args]
      [] func = "raises"  -> [kind |-> "exception", val |-> 20 + args]
      [] func = "aborts"  -> [kind |-> "base", val |-> 30 + args]
      [] OTHER            -> [kind |-> "never", val |-> 0]

InvalidStateError == 99

NoOutcome == [kind |-> "none", val |-> 0]
NoTask == [func |-> "none", args |-> 0, future |-> 0]
NewTrace(func, args) ==
    [func |-> func, args |-> args, starts |-> 0, dones |-> 0, doneAt |-> -1]

\* asyncio.Future(): pending, no result, no exception
NewFuture == [state |-> "PENDING", outcome |-> NoOutcome]

\* Faulty variant: a result container that stores without looking at its state
SetResult_Overwrite(futs, f, v) ==
    [raised |-> "none", err |-> 0,
     futures |-> [futs EXCEPT ![f] =
                    [state |-> "FINISHED",
                     outcome |-> [kind |-> "value", val |-> v]]]]

\* Future.set_result / Future.set_exception: raise InvalidStateError unless
\* the future is pending; the returned record says what was raised.
SetResult(futs, f, v) ==
    IF futs[f].state # "PENDING"
    THEN [raised |-> "exception", err |-> InvalidStateError, futures |-> futs]
    ELSE [raised |-> "none", err |-> 0,
          futures |-> [futs EXCEPT ![f] =
                         [state |-> "FINISHED",
                          outcome |-> [kind |-> "value", val |-> v]]]]

SetException(futs, f, e) ==
    IF futs[f].state # "PENDING"
    THEN [raised |-> "exception", err |-> InvalidStateError, futures |-> futs]
    ELSE [raised |-> "none", err |-> 0,
          futures |-> [futs EXCEPT ![f] =
                         [state |-> "FINISHED",
                          outcome |-> [kind |-> "exception", val |-> e]]]]

\* Faulty variant: a queue made with maxsize=1
Full_Bounded(q) == Len(q) >= 1

\* Queue.full(): never when maxsize <= 0
Full(q) == IF maxsize <= 0 THEN FALSE ELSE Len(q) >= maxsize

\* Faulty variant: no cooldown, as with asyncio.sleep(0)
Deadline_None(t) == t

\* asyncio.sleep(1) called at time t ends when the clock reaches this
Deadline(t) == t + Cooldown * TicksPerUnit

----------------------------------------------------------------------------
Init ==
    /\ queue = <<>>
    /\ putters = <<>>
    /\ unfinished = 0
    /\ futures = <<>>
    /\ pc = "get"
    /\ cur = NoTask
    /\ now = 0
    /\ wakeAt = 0
    /\ trace = <<>>

\* add_to_queue(func, *args)
Submit(func, args) ==
    /\ Len(futures) < MaxTasks
    /\ LET future == Len(futures) + 1
           item == [func |-> func, args |-> args, future |-> future]
       IN /\ futures' = Append(futures, NewFuture)
          /\ trace' = Append(trace, NewTrace(func, args))
          /\ IF Full(queue)
             THEN /\ putters' = Append(putters, item)
                  /\ UNCHANGED <<queue, unfinished>>
             ELSE /\ queue' = Append(queue, item)
                  /\ unfinished' = unfinished + 1
                  /\ UNCHANGED putters
    /\ UNCHANGED <<pc, cur, now, wakeAt>>

\* Faulty variant: the operation is started but not awaited (fire and forget), so
\* the worker goes straight back to queue.get()
Dequeue_Detached ==
    /\ pc = "get"
    /\ queue # <<>>
    /\ cur' = Head(queue)
    /\ queue' = Tail(queue)
    /\ trace' = [trace EXCEPT ![Head(queue).future] = [@ EXCEPT !.starts = @ + 1]]
    /\ pc' = "get"
    /\ UNCHANGED <<putters, unfinished, futures, now, wakeAt>>

\* Faulty variant: the newest entry is taken first, as with asyncio.LifoQueue
Dequeue_Lifo ==
    /\ pc = "get"
    /\ queue # <<>>
    /\ cur' = queue[Len(queue)]
    /\ queue' = SubSeq(queue, 1, Len(queue) - 1)
    /\ trace' = [trace EXCEPT ![queue[Len(queue)].future] =
                    [@ EXCEPT !.starts = @ + 1]]
    /\ pc' = "exec"
    /\ UNCHANGED <<putters, unfinished, futures, now, wakeAt>>

\* Faulty variant: the cooldown is taken at the top of the loop, between
\* queue.get() and the operation
Dequeue_SleepFirst ==
    /\ pc = "get"
    /\ queue # <<>>
    /\ cur' = Head(queue)
    /\ queue' = Tail(queue)
    /\ wakeAt' = Deadline(now)
    /\ pc' = "sleep"
    /\ UNCHANGED <<putters, unfinished, futures, now, trace>>

\* Faulty variant: the worker polls, sleeping between looks at an empty queue
Dequeue_Poll ==
    /\ pc = "get"
    /\ IF queue = <<>>
       THEN /\ pc' = "sleep"
            /\ wakeAt' = Deadline(now)
            /\ UNCHANGED <<queue, cur, trace>>
       ELSE /\ cur' = Head(queue)
            /\ queue' = Tail(queue)
            /\ trace' = [trace EXCEPT ![Head(queue).future] =
                            [@ EXCEPT !.starts = @ + 1]]
            /\ pc' = "exec"
            /\ UNCHANGED wakeAt
    /\ UNCHANGED <<putters, unfinished, futures, now>>

\* process_queue: queue.get() returns the head entry and func on args is
\* awaited; the worker is now suspended in the operation.
Dequeue ==
    /\ pc = "get"
    /\ queue # <<>>
    /\ LET item == Head(queue)
           rest == Tail(queue)
       IN /\ cur' = item
          /\ IF putters # <<>> /\ ~Full(rest)
             THEN /\ queue' = Append(rest, Head(putters))
                  /\ putters' = Tail(putters)
                  /\ unfinished' = unfinished + 1
             ELSE /\ queue' = rest
                  /\ UNCHANGED <<putters, unfinished>>
          /\ trace' = [trace EXCEPT ![item.future] =
                         [@ EXCEPT !.starts = @ + 1]]
    /\ pc' = "exec"
    /\ UNCHANGED <<futures, now, wakeAt>>

\* Faulty variant: the result goes to the Future made last (one shared attribute
\* instead of the Future carried in the queue entry)
TryBlock_Latest(futs, item) ==
    LET out == Run(item.func, item.args)
    IN IF out.kind = "value"
       THEN SetResult(futs, Len(futs), out.val)
       ELSE [raised |-> out.kind, err |-> out.val, futures |-> futs]

\* The try block: the operation's outcome, then set_result on a value.
TryBlock(futs, item) ==
    LET out == Run(item.func, item.args)
    IN IF out.kind = "value"
       THEN SetResult(futs, item.future, out.val)
       ELSE [raised |-> out.kind, err |-> out.val, futures |-> futs]

\* Faulty variant: the handler stores the exception as an ordinary result
ExceptBlock_AsResult(t, item) ==
    IF t.raised = "exception"
    THEN SetResult(t.futures, item.future, t.err)
    ELSE t

\* except Exception as e: future.set_exception(e).  Anything else raised in
\* the try block, and anything raised in the handler, leaves the loop.
ExceptBlock(t, item) ==
    IF t.raised = "exception"
    THEN SetException(t.futures, item.future, t.err)
    ELSE t

\* Faulty variant: task_done() is left out
Complete_NoTaskDone ==
    /\ pc = "exec"
    /\ Run(cur.func, cur.args).kind # "never"
    /\ LET r == ExceptBlock(TryBlock(futures, cur), cur)
       IN /\ futures' = r.futures
          /\ IF r.raised = "none"
             THEN /\ wakeAt' = Deadline(now)
                  /\ pc' = "sleep"
             ELSE /\ pc' = "dead"
                  /\ UNCHANGED wakeAt
    /\ trace' = [trace EXCEPT ![cur.future] =
                    [@ EXCEPT !.dones = @ + 1, !.doneAt = now]]
    /\ UNCHANGED <<queue, putters, unfinished, cur, now>>

\* Faulty variant: the Future is resolved only after the cooldown, so the
\* worker enters its sleep with the outcome not yet stored
Complete_ResolveLate ==
    /\ pc = "exec"
    /\ Run(cur.func, cur.args).kind # "never"
    /\ unfinished' = unfinished - 1
    /\ wakeAt' = Deadline(now)
    /\ pc' = "sleep"
    /\ trace' = [trace EXCEPT ![cur.future] =
                    [@ EXCEPT !.dones = @ + 1, !.doneAt = now]]
    /\ UNCHANGED <<queue, putters, futures, cur, now>>

\* Faulty variant: the operation is awaited with a timeout, so one that
\* never completes ends with a TimeoutError, which the handler stores
Complete_Timeout ==
    /\ pc = "exec"
    /\ LET out == Run(cur.func, cur.args)
           t == IF out.kind = "never"
                THEN [raised |-> "exception", err |-> 0, futures |-> futures]
                ELSE TryBlock(futures, cur)
           r == ExceptBlock(t, cur)
       IN /\ futures' = r.futures
          /\ IF r.raised = "none"
             THEN /\ unfinished' = unfinished - 1
                  /\ wakeAt' = Deadline(now)
                  /\ pc' = "sleep"
             ELSE /\ pc' = "dead"
                  /\ UNCHANGED <<unfinished, wakeAt>>
    /\ trace' = [trace EXCEPT ![cur.future] =
                    [@ EXCEPT !.dones = @ + 1, !.doneAt = now]]
    /\ UNCHANGED <<queue, putters, cur, now>>

\* process_queue: the awaited operation ends; try / except, task_done(),
\* and the worker is suspended in asyncio.sleep(1) -- or the exception that
\* escaped ends the worker task.
Complete ==
    /\ pc = "exec"
    /\ Run(cur.func, cur.args).kind # "never"
    /\ LET r == ExceptBlock(TryBlock(futures, cur), cur)
       IN /\ futures' = r.futures
          /\ IF r.raised = "none"
             THEN /\ unfinished' = unfinished - 1
                  /\ wakeAt' = Deadline(now)
                  /\ pc' = "sleep"
             ELSE /\ pc' = "dead"
                  /\ UNCHANGED <<unfinished, wakeAt>>
    /\ trace' = [trace EXCEPT ![cur.future] =
                    [@ EXCEPT !.dones = @ + 1, !.doneAt = now]]
    /\ UNCHANGED <<queue, putters, cur, now>>

\* process_queue: the sleep is over, back to the top of the loop
Wake ==
    /\ pc = "sleep"
    /\ now >= wakeAt
    /\ pc' = "get"
    /\ UNCHANGED <<queue, putters, unfinished, futures, cur, now, wakeAt, trace>>

\* Time passes.
Tick ==
    /\ \/ now < MaxTime
       \/ pc = "sleep" /\ now < wakeAt
    /\ now' = now + 1
    /\ UNCHANGED <<queue, putters, unfinished, futures, pc, cur, wakeAt, trace>>

\* The holder of the Future returned by add_to_queue cancels it (directly,
\* through asyncio.wait_for, or by being cancelled while awaiting it).
Cancel(f) ==
    /\ futures[f].state = "PENDING"
    /\ futures' = [futures EXCEPT ![f] = [@ EXCEPT !.state = "CANCELLED"]]
    /\ UNCHANGED <<queue, putters, unfinished, pc, cur, now, wakeAt, trace>>

Next ==
    \/ \E c \in Calls : Submit(c[1], c[2])
    \/ Dequeue
    \/ Complete
    \/ Wake
    \/ Tick
    \/ \E f \in 1..Len(futures) : Cancel(f)

Spec == Init /\ [][Next]_vars

----------------------------------------------------------------------------
(* Vocabulary of the properties *)

Ids == 1..Len(futures)

\* the operation of Future i has been started and has not ended
Executing(i) == trace[i].starts > trace[i].dones
Started(i) == trace[i].starts > 0
Ended(i) == trace[i].dones > 0
Resolved(i) == futures[i].state = "FINISHED"

----------------------------------------------------------------------------
\* C1: in every reachable state at most one submitted operation is executing
\* (started by the worker and not yet ended), whatever the interleaving of
\* add_to_queue calls with the worker.
C1_AtMostOneExecuting == Cardinality({i \in Ids : Executing(i)}) <= 1

\* an operation runs while a later submission waits and an earlier task is over
C1_Witness ==
    /\ pc = "exec"
    /\ Executing(cur.future)
    /\ Len(queue) >= 1
    /\ \E i \in Ids : Ended(i) /\ i < cur.future

\* C2: tasks start and end in the order they were enqueued: when a task has
\* started, every task enqueued before it has ended and its Future is
\* resolved (no reordering, no overtaking).
C2_QueueOrder ==
    \A i, j \in Ids :
        i < j /\ Started(j) => Ended(i) /\ Resolved(i) /\ ~Executing(i)

\* the third of three tasks runs after the first two were resolved in turn
C2_Witness ==
    /\ Len(futures) >= 3
    /\ Started(3)
    /\ Resolved(1) /\ Resolved(2)
    /\ trace[1].doneAt < trace[2].doneAt

\* C3: after a task ends, by a value or by a failure, the next task does not
\* start before the whole cooldown has passed: a running operation started
\* at least one cooldown after every ended one, and any two ended operations
\* ended at least one cooldown apart.
C3_CooldownBetweenTasks ==
    \A i, j \in Ids :
        i # j /\ Ended(i) =>
            /\ Executing(j) => now >= trace[i].doneAt + Cooldown * TicksPerUnit
            /\ Ended(j) /\ trace[j].doneAt >= trace[i].doneAt =>
                   trace[j].doneAt >= trace[i].doneAt + Cooldown * TicksPerUnit

\* a task that failed is followed, exactly one cooldown later, by the end of
\* a task that was already waiting in the queue
C3_Witness ==
    \E i, j \in Ids :
        /\ Resolved(i) /\ futures[i].outcome.kind = "exception"
        /\ Ended(j)
        /\ trace[j].doneAt = trace[i].doneAt + Cooldown * TicksPerUnit

----------------------------------------------------------------------------
\* what awaiting the operation of Future i does
OutcomeOf(i) == Run(trace[i].func, trace[i].args)
Raises(i) == OutcomeOf(i).kind \in {"exception", "base"}
Terminates(i) == OutcomeOf(i).kind # "never"
Cancelled(i) == futures[i].state = "CANCELLED"
HoldsFailure(i) ==
    /\ Resolved(i)
    /\ futures[i].outcome = [kind |-> "exception", val |-> OutcomeOf(i).val]

\* C4: when the operation of a task raises, the worker resolves that task's
\* Future with the failure and goes on to take the tasks still queued: with
\* no Future cancelled, an ended raising task has its failure stored and the
\* worker is not dead in front of a non-empty queue.
C4_FailureDoesNotPoisonQueue ==
    (\A k \in Ids : ~Cancelled(k)) =>
        \A i \in Ids :
            Ended(i) /\ Raises(i) =>
                /\ HoldsFailure(i)
                /\ queue # <<>> => pc # "dead"

\* C5: whatever kind of failure the operation raises, it is stored in the
\* task's own Future and does not leave the loop: the worker is never ended
\* by the failure of the task it has just run.
C5_EveryFailureCaptured ==
    \A i \in Ids :
        Ended(i) /\ Raises(i) /\ ~Cancelled(i) =>
            /\ HoldsFailure(i)
            /\ ~(pc = "dead" /\ cur.future = i)

\* C6: a Future starts empty and is resolved at most once: a new Future is
\* pending without outcome, a Future that has left the pending state never
\* changes again, and a Future becomes resolved only in the worker's step
\* that ends the operation of that Future's own task.
C6_ResolvedAtMostOnce ==
    [][/\ Len(futures') >= Len(futures)
       /\ \A i \in 1..Len(futures') :
              /\ i > Len(futures) => futures'[i] = NewFuture
              /\ futures'[i].state = "PENDING" => futures'[i].outcome = NoOutcome
       /\ \A i \in Ids :
              /\ futures[i].state # "PENDING" => futures'[i] = futures[i]
              /\ futures[i].state = "PENDING" /\ futures'[i].state = "FINISHED" =>
                     /\ pc = "exec" /\ cur.future = i
                     /\ trace'[i].dones = trace[i].dones + 1]_vars

\* every Future of three is out of the pending state, two of them resolved
C6_Witness ==
    /\ Len(futures) >= 3
    /\ \A i \in Ids : futures[i].state # "PENDING"
    /\ \E i, j \in Ids : i # j /\ Resolved(i) /\ Resolved(j)

\* C7: with every submitted operation terminating (returning or raising) and
\* no Future cancelled, every Future is resolved in the end: the worker,
\* whose end nothing undoes, is never dead while a Future is unresolved.
C7_AllEventuallyResolved ==
    (\A k \in Ids : Terminates(k) /\ ~Cancelled(k)) =>
        ((\E i \in Ids : ~Resolved(i)) => pc # "dead")

\* C8: a resolved Future holds the outcome of its own task's operation on
\* its own arguments, the returned value or the raised failure, and the
\* step that resolves one Future leaves every other Future as it was.
C8_OwnOutcome ==
    [][/\ \A i \in 1..Len(futures') :
              futures'[i].state = "FINISHED" =>
                  /\ futures'[i].outcome.kind \in {"value", "exception"}
                  /\ futures'[i].outcome =
                         Run(trace'[i].func, trace'[i].args)
       /\ \A i \in Ids :
              ~Resolved(i) /\ futures'[i].state = "FINISHED" =>
                  \A j \in Ids \ {i} : futures'[j] = futures[j]]_vars

\* a value and a failure have been delivered, to the two Futures they belong
\* to, while a third Future is still pending
C8_Witness ==
    \E i, j, k \in Ids :
        /\ Resolved(i) /\ futures[i].outcome.kind = "value"
        /\ Resolved(j) /\ futures[j].outcome.kind = "exception"
        /\ futures[k].state = "PENDING"

\* C9: add_to_queue never fails and never suspends: it can be called in every
\* state, no put() is ever left waiting, and the call appends exactly its own
\* entry at the tail of the queue, with a new pending Future, leaving the
\* entries already queued, the other Futures and the worker as they were.
C9_SubmitNeverBlocks ==
    [][/\ Len(futures) < MaxTasks => ENABLED (\E c \in Calls : Submit(c[1], c[2]))
       /\ putters' = <<>>
       /\ Len(futures') = Len(futures) + 1 =>
              /\ Len(queue') = Len(queue) + 1
              /\ SubSeq(queue', 1, Len(queue)) = queue
              /\ queue'[Len(queue')].future = Len(futures')
              /\ <<queue'[Len(queue')].func, queue'[Len(queue')].args>> \in Calls
              /\ futures'[Len(futures')] = NewFuture
              /\ SubSeq(futures', 1, Len(futures)) = futures
              /\ unfinished' = unfinished + 1
              /\ pc' = pc /\ cur' = cur]_vars

\* two entries wait in the queue while the worker is in a cooldown that has
\* not yet elapsed
C9_Witness ==
    /\ pc = "sleep"
    /\ now < wakeAt
    /\ Len(queue) >= 2

\* C10: every enqueued task is consumed exactly once: no operation is started
\* twice, and no entry is left in the queue for good while the operations
\* before it terminate (with no Future cancelled, the worker is not dead in
\* front of a non-empty queue).
C10_ConsumedExactlyOnce ==
    /\ \A i \in Ids : trace[i].starts <= 1
    /\ (\A k \in Ids : Terminates(k) /\ ~Cancelled(k)) =>
           (queue # <<>> => pc # "dead")

----------------------------------------------------------------------------
\* The scenario of C11: A returns a value, B raises an Exception, C returns
\* another value, submitted in that order as the first three tasks, and
\* nobody cancels a Future.
ScenarioABC ==
    /\ Len(futures) >= 3
    /\ <<trace[1].func, trace[1].args>> = <<"returns", 1>>
    /\ <<trace[2].func, trace[2].args>> = <<"raises", 1>>
    /\ <<trace[3].func, trace[3].args>> = <<"returns", 2>>
    /\ \A k \in Ids : ~Cancelled(k)

\* C11: in the scenario A, B, C the Futures are resolved in the order A, B,
\* C; A holds A's value, B holds the Exception B raised, C holds C's value;
\* C ends at least two cooldowns after A; and until all three are resolved
\* the worker is alive and has a next step (or its sleep a next tick).
C11_ScenarioABC ==
    ScenarioABC =>
        /\ (\E i \in 1..3 : ~Resolved(i)) =>
               /\ pc # "dead"
               /\ \/ ENABLED (Dequeue \/ Complete \/ Wake)
                  \/ pc = "sleep" /\ ENABLED Tick
        /\ Resolved(3) => Resolved(2)
        /\ Resolved(2) => Resolved(1)
        /\ Resolved(1) => futures[1].outcome = [kind |-> "value", val |-> Run("returns", 1).val]
        /\ Resolved(2) => futures[2].outcome = [kind |-> "exception", val |-> Run("raises", 1).val]
        /\ Resolved(3) => futures[3].outcome = [kind |-> "value", val |-> Run("returns", 2).val]
        /\ Resolved(2) => trace[2].doneAt >= trace[1].doneAt + Cooldown * TicksPerUnit
        /\ Resolved(3) => trace[3].doneAt >= trace[1].doneAt + 2 * Cooldown * TicksPerUnit

\* the scenario has run to its end, C ending exactly two cooldowns after A
C11_Witness ==
    /\ ScenarioABC
    /\ Resolved(1) /\ Resolved(2) /\ Resolved(3)
    /\ trace[3].doneAt = trace[1].doneAt + 2 * Cooldown * TicksPerUnit

----------------------------------------------------------------------------
\* the worker is suspended in queue.get() on an empty queue
Idle == pc = "get" /\ queue = <<>>

\* C12: while the worker is idle (empty queue, nothing executing, no
\* cooldown) it has no step to take, and no step changes anything of the
\* worker or the queue until an add_to_queue makes the queue non-empty; with
\* no submission at all the system is idle and stays idle, never ended.
C12_IdleUntilSubmit ==
    [][/\ Len(futures') = 0 => pc' = "get" /\ queue' = <<>>
       /\ Idle =>
              /\ ~ENABLED (Dequeue \/ Complete \/ Wake)
              /\ pc' = "get" /\ cur' = cur /\ wakeAt' = wakeAt
              /\ queue' # <<>> =>
                     /\ Len(futures') = Len(futures) + 1
                     /\ Len(queue') = 1
              /\ queue' = <<>> =>
                     /\ unfinished' = unfinished
                     /\ trace' = trace
                     /\ Len(futures') = Len(futures)]_vars

\* nothing was ever submitted and the clock has run as far as it goes
C12_Witness ==
    /\ Idle
    /\ Len(futures) = 0
    /\ now = MaxTime

----------------------------------------------------------------------------
\* the worker awaits an operation that never completes
Stalled == pc = "exec" /\ Run(cur.func, cur.args).kind = "never"

\* C13: when the operation being executed never completes the queue stalls
\* for good: the worker stays in that operation, no further task is started
\* and no Future is resolved, while add_to_queue is still accepted and the
\* entries pile up in the queue, none of them leaving it.
C13_BlockedOperationStalls ==
    [][Stalled =>
          /\ Stalled'
          /\ cur' = cur
          /\ \A i \in Ids :
                 /\ trace'[i] = trace[i]
                 /\ Resolved(i) <=> (futures'[i].state = "FINISHED")
                 /\ i > cur.future => (~Started(i) /\ ~Resolved(i))
          /\ ~Resolved(cur.future)
          /\ Len(queue') >= Len(queue)
          /\ SubSeq(queue', 1, Len(queue)) = queue
          /\ Len(futures) < MaxTasks =>
                 ENABLED (\E c \in Calls : Submit(c[1], c[2]))
          /\ Len(futures') = Len(futures) + 1 => Len(queue') = Len(queue) + 1]_vars

\* two tasks submitted behind a blocked operation wait in the queue, unstarted
C13_Witness ==
    /\ Stalled
    /\ cur.future = 1
    /\ Len(queue) = 2
    /\ ~Started(2) /\ ~Started(3)
    /\ now = MaxTime

----------------------------------------------------------------------------
\* C14: the worker stays alive when the holder cancels a Future before the
\* worker resolves it: after the operation of a cancelled Future has ended
\* by a value or an Exception, the worker has not been ended by that task
\* (it is in its cooldown or beyond, and goes on to the later tasks).
C14_WorkerSurvivesCancelledFuture ==
    \A i \in Ids :
        /\ Ended(i)
        /\ Cancelled(i)
        /\ OutcomeOf(i).kind \in {"value", "exception"}
        => ~(pc = "dead" /\ cur.future = i)

----------------------------------------------------------------------------
\* C15: a Future is resolved in the step that ends its operation, before the
\* cooldown that follows: whenever the worker sleeps, the Future of the task
\* it has just run is resolved, and the sleep began when that operation
\* ended, so nobody waits for the cooldown after their own task.
C15_ResolvedBeforeCooldown ==
    pc = "sleep" =>
        /\ Resolved(cur.future)
        /\ Ended(cur.future)
        /\ wakeAt = trace[cur.future].doneAt + Cooldown * TicksPerUnit
        /\ now >= trace[cur.future].doneAt

\* the cooldown after a task has just begun and its Future already holds
\* the outcome
C15_Witness ==
    /\ pc = "sleep"
    /\ now = trace[cur.future].doneAt
    /\ now < wakeAt
    /\ Resolved(cur.future)

----------------------------------------------------------------------------
\* C16: the cooldown is taken only after a task.  A worker suspended in
\* queue.get() with an entry in the queue can start it at once, whatever the
\* clock says, and its next step does start the head entry, in no time and
\* without setting a sleep; the worker enters a sleep only in the step that
\* ends an operation, and leaves it only for queue.get() at the deadline.
C16_CooldownOnlyAfterTask ==
    [][/\ (pc = "get" /\ queue # <<>>) => ENABLED Dequeue
       /\ (pc = "get" /\ pc' # "get") =>
              /\ pc' = "exec"
              /\ cur' = Head(queue)
              /\ trace'[cur'.future].starts = trace[cur'.future].starts + 1
              /\ now' = now
              /\ wakeAt' = wakeAt
       /\ (pc # "sleep" /\ pc' = "sleep") =>
              /\ pc = "exec"
              /\ trace'[cur.future].dones = trace[cur.future].dones + 1
       /\ (pc = "sleep" /\ pc' # "sleep") => (pc' = "get" /\ now >= wakeAt)]_vars

\* the first task runs at time 0: no sleep was ever set before it started
C16_Witness ==
    /\ pc = "exec"
    /\ cur.future = 1
    /\ Executing(1)
    /\ now = 0
    /\ wakeAt = 0

----------------------------------------------------------------------------
\* the tasks taken from the queue whose Future the worker has not resolved:
\* task_done() follows set_result / set_exception in the same step
InHand == {i \in Ids : Started(i) /\ ~Resolved(i)}

\* C17: the queue's count of unfinished tasks is never negative and equals
\* the number of entries waiting in the queue, plus one while a task has
\* been taken and not yet marked done (the worker is in its operation, or
\* was ended by it); in the cooldown the task just run is resolved and
\* already marked done.
C17_UnfinishedCount ==
    /\ unfinished >= 0
    /\ Cardinality(InHand) = IF pc \in {"exec", "dead"} THEN 1 ELSE 0
    /\ unfinished = Len(queue) + Cardinality(InHand)
    /\ pc = "sleep" => Resolved(cur.future) /\ unfinished = Len(queue)

\* a second task is in its operation with a third waiting, the first one
\* resolved and marked done
C17_Witness ==
    /\ pc = "exec"
    /\ cur.future = 2
    /\ Resolved(1)
    /\ Len(queue) = 1
    /\ unfinished = 2

====
